---- MODULE Spec2Model ----
(***************************************************************************)
(* The service-lifecycle test harness of sglang_auto_test, in its two      *)
(* variants:                                                               *)
(*   "multi"  : ServiceTestSuite  (src/run_multi_sglang_tests.py)          *)
(*   "single" : ServiceTester     (src/run_sglang_test.py)                 *)
(* One harness object supervises one service process tree.  The harness    *)
(* is driven either by the program's main() ("main": one run(), then       *)
(* sys.exit, with SIGINT/SIGTERM arriving at any moment) or by a caller    *)
(* that invokes the public methods one after the other ("api").            *)
(* Time is abstract: one tick per loop iteration of a polling loop.        *)
(*                                                                         *)
(* Specifications:                                                         *)
(*   Spec      : one harness and its service process tree                  *)
(*   FairSpec  : Spec under a scheduler that runs the harness's own steps  *)
(*   LogSpec   : the log thread of a long-running service                  *)
(*   TraceSpec : analyze_kernel_events (src/extrace_trace.py)              *)
(*   ParSpec   : MultiServiceTester.run_parallel, one thread per suite     *)
(*   TesterSpec: one run of main(): run_parallel or run_serial, then the   *)
(*               report                                                    *)
(***************************************************************************)
EXTENDS Integers, Sequences, FiniteSets, TLC

\* ---------------------------------------------------------------- bounds
NChildren == 1     \* descendant processes the service may spawn
NTests    == 2     \* configured test commands
Timeout   == 2     \* config 'timeout', in polling-loop iterations
MaxCalls  == 3     \* method calls the api caller makes
MaxLines  == 1     \* output lines the service prints during one lifecycle
MaxLogLines == 1002  \* output lines of a long-running service
NSuites   == 2     \* suites of a MultiServiceTester
MaxEvents == 2     \* records in the traceEvents list
MaxDur    == 2     \* largest 'dur' of a record, in thousandths of a microsecond

\* ------------------------------------------------------------- constants
Root      == 0     \* the process Popen returned (main_process / main_proc)
HTTP_OK   == 200   \* the only status the probes accept
NetworkError == 0  \* requests.get raised instead of answering
LogCap    == 1000  \* the most lines log_buffer keeps

Children  == 1..NChildren
Procs     == {Root} \cup Children
Tests     == 1..NTests
ExitCodes == {0, 1, 127}                \* 127: the shell could not find the command
Responses == {HTTP_OK, 204, 503, NetworkError}
Is2xx(r)  == r >= 200 /\ r < 300
Min(S)    == CHOOSE x \in S : \A y \in S : x <= y

VARIABLES
  variant,          \* "multi" | "single"
  mode,             \* "main" | "api"
  cfg,              \* [ready_pattern, health_check]: what the config sets
  service_process,  \* "None" | "Popen"
  alive,            \* the processes of the service's tree that exist
  service_ready,    \* threading.Event set by the log thread (multi)
  success,          \* ServiceTestSuite.success
  test_results,     \* ServiceTestSuite.test_results: test -> outcome
  m,                \* the method executing (or last executed)
  mpc,              \* its position; "done" once it has returned or raised
  who,              \* its caller: "client" | "run" | "handler"
  ret,              \* how it ended: "true" | "false" | "raise"
  elapsed,          \* ticks spent in the current polling loop
  idx,              \* run_tests: index of the next test
  all_success,      \* run_tests: local all_success
  enumerated,       \* stop_service: children / all_procs as enumerated
  todo,             \* stop_service: processes the current for-loop still visits
  runpc,            \* where run() stands
  test_success,     \* run(): local test_success
  runRet,           \* what run() returned
  prog,             \* "running" | "exited"
  exitCode,         \* the program's exit status once exited
  calls,            \* api: method calls made so far
  log_thread,       \* ServiceTestSuite.log_thread: "none" | "running" | "finished"
  log_buffer,       \* ServiceTestSuite.log_buffer: the lines kept, by arrival number
  linesRead,        \* output lines the log thread has read so far
  lineLimit,        \* output lines the service prints at most
  \* ---- observation (history) variables, read by the properties only
  obs,              \* what the current method call has done so far
  executed,         \* run_tests: the (test, exit code) pairs, in execution order
  notStarted,       \* run_tests: tests whose subprocess.run raised
  stopsDone,        \* completed stop_service calls made on a started service
  runStops,         \* stop_service invocations made by run()
  reachedTesting,   \* run() has called run_tests
  failedAt,         \* "none" | "start" | "wait": the step run() saw fail
  interrupted,      \* a SIGINT or SIGTERM has arrived
  sigRunning,       \* a signal arrived while the service process was running
  sigStop,          \* stop_service was invoked in response to a signal
  \* ---- the trace analyzer (src/extrace_trace.py), a program of its own
  trace_file,       \* what the file holds: "ok" | "missing" | "invalid_json" | "no_traceEvents"
  trace_events,     \* the file's traceEvents list
  result,           \* what analyze_kernel_events returned
  tpc,              \* "idle" | "called" | "returned"
  \* ---- MultiServiceTester.run_parallel: several suites, one thread each
  suites,           \* MultiServiceTester.suites: suite -> its attributes
  nextStart,        \* run_parallel: the suite whose thread is started next
  par_ret,          \* what run_parallel returned: "none" | "true" | "false"
  outcomes,         \* (history) suite -> what its own service and tests did
  \* ---- MultiServiceTester as main() drives it: one run, then the report
  parallel,         \* args.parallel: run_parallel is used, else run_serial
  serial_all_success, \* run_serial: local all_success
  report            \* <<>>, then <<what generate_report returned>>

cfgVars   == <<variant, mode, cfg>>
logVars   == <<log_thread, log_buffer, linesRead, lineLimit>>
traceVars == <<trace_file, trace_events, result, tpc>>
parVars   == <<suites, nextStart, par_ret, outcomes>>
\* what no step of one harness touches
testerVars == <<parallel, serial_all_success, report>>
asideVars == <<traceVars, parVars, testerVars>>
procVars  == <<service_process, alive, service_ready>>
suiteVars == <<success, test_results>>
callVars  == <<m, mpc, who, ret>>
loopVars  == <<elapsed, idx, all_success, enumerated, todo>>
runVars   == <<runpc, test_success, runRet>>
progVars  == <<prog, exitCode, calls>>
testObs   == <<executed, notStarted>>
runObs    == <<runStops, reachedTesting, failedAt>>
sigObs    == <<interrupted, sigRunning, sigStop>>
harnessVars == <<cfgVars, procVars, suiteVars, callVars, loopVars, runVars,
                 progVars, logVars, obs, testObs, stopsDone, runObs, sigObs>>
vars == <<cfgVars, procVars, suiteVars, callVars, loopVars, runVars, progVars,
          logVars, obs, testObs, stopsDone, runObs, sigObs, asideVars>>

NoObs == [sigs |-> 0, polled |-> FALSE, saw2xx |-> FALSE, late |-> FALSE,
          svcUp |-> FALSE, guarded |-> FALSE, recorded |-> 0,
          patternSeen |-> FALSE,  \* a line holding the ready text was read
          signalled |-> {},       \* the processes sent SIGTERM or SIGKILL
          gone |-> {},            \* the processes found gone when signalled
          lateLog |-> FALSE]      \* a line was logged after the call returned

SvcRunning == service_process # "None" /\ Root \in alive

\* The analyzer is not in use.
TraceIdle ==
  /\ trace_file = "ok" /\ trace_events = <<>> /\ result = <<>> /\ tpc = "idle"

\* No MultiServiceTester is in use.
ParIdle ==
  /\ suites = <<>> /\ nextStart = 1 /\ par_ret = "none" /\ outcomes = <<>>
  /\ parallel = TRUE /\ serial_all_success = TRUE /\ report = <<>>

\* One harness object after __init__.
HarnessInit ==
  /\ variant \in {"multi", "single"}
  /\ mode \in {"main", "api"}
  /\ cfg \in [ready_pattern : BOOLEAN, health_check : BOOLEAN]
  \* ServiceTester hard-codes its ready line and always has a health URL
  /\ variant = "single" => cfg = [ready_pattern |-> TRUE, health_check |-> TRUE]
  /\ service_process = "None"
  /\ alive = {}
  /\ service_ready = FALSE
  /\ success = FALSE
  /\ test_results = <<>>
  /\ m = "none" /\ mpc = "done" /\ who = "client" /\ ret = "none"
  /\ elapsed = 0 /\ idx = 1 /\ all_success = TRUE
  /\ enumerated = {} /\ todo = {}
  /\ runpc = "none" /\ test_success = FALSE /\ runRet = FALSE
  /\ prog = "running" /\ exitCode = 0 /\ calls = 0
  /\ obs = NoObs
  /\ executed = <<>> /\ notStarted = {}
  /\ stopsDone = 0
  /\ runStops = 0 /\ reachedTesting = FALSE /\ failedAt = "none"
  /\ interrupted = FALSE /\ sigRunning = FALSE /\ sigStop = FALSE
  /\ log_thread = "none" /\ log_buffer = <<>>
  /\ linesRead = 0 /\ lineLimit = MaxLines

Init == HarnessInit /\ TraceIdle /\ ParIdle

\* A method is entered: its locals and the call's observations start afresh.
Enter(meth, caller) ==
  /\ m' = meth /\ mpc' = "entry" /\ who' = caller /\ ret' = "none"
  /\ elapsed' = 0 /\ idx' = 1 /\ all_success' = TRUE
  /\ enumerated' = {} /\ todo' = {}
  /\ obs' = NoObs

\* The executing method returns v ("true" / "false") or raises ("raise").
Return(v) == mpc' = "done" /\ ret' = v

Running(meth, at) == prog = "running" /\ m = meth /\ mpc = at

\* ------------------------------------------------------------ start_service
\* Popen: the shell is spawned, or Popen raises.  ServiceTestSuite catches the
\* exception and returns False; ServiceTester lets it propagate.
start_service_spawn ==
  /\ Running("start", "entry")
  /\ \/ /\ service_process' = "Popen"
        /\ alive' = {Root}
        /\ mpc' = IF variant = "single" THEN "readline"
                  ELSE IF cfg.ready_pattern THEN "poll" ELSE "sleep"
        \* ServiceTestSuite starts its log thread on the pty
        /\ log_thread' = IF variant = "multi" THEN "running" ELSE log_thread
        /\ UNCHANGED ret
     \/ /\ Return(IF variant = "multi" THEN "false" ELSE "raise")
        /\ UNCHANGED <<service_process, alive, log_thread>>
  /\ UNCHANGED <<cfgVars, asideVars, log_buffer, linesRead, lineLimit, service_ready, suiteVars, m, who, loopVars, runVars,
                 progVars, obs, testObs, stopsDone, runObs, sigObs>>

\* ServiceTestSuite, ready_pattern set: poll the event every 0.5 s until the
\* timeout.
start_service_poll ==
  /\ Running("start", "poll")
  /\ IF elapsed >= Timeout THEN Return("false") /\ UNCHANGED elapsed
     ELSE IF service_ready THEN Return("true") /\ UNCHANGED elapsed
     ELSE elapsed' = elapsed + 1 /\ UNCHANGED <<mpc, ret>>
  /\ UNCHANGED <<cfgVars, asideVars, logVars, procVars, suiteVars, m, who, idx, all_success,
                 enumerated, todo, runVars, progVars, obs, testObs, stopsDone,
                 runObs, sigObs>>

\* ServiceTestSuite, no ready_pattern: sleep(10), return True.
start_service_sleep ==
  /\ Running("start", "sleep")
  /\ Return("true")
  /\ UNCHANGED <<cfgVars, asideVars, logVars, procVars, suiteVars, m, who, loopVars, runVars,
                 progVars, obs, testObs, stopsDone, runObs, sigObs>>

\* ServiceTester: read the service's output line by line until the ready line
\* or end of file, then return whether the process is still running.  A line
\* without the pattern changes nothing; with no line and no end of file the
\* read blocks.  End of file comes when every holder of the pipe's write end
\* has closed it: by exiting, or by redirecting its output elsewhere.
start_service_readline ==
  /\ Running("start", "readline")
  /\ \/ /\ alive # {}      \* a line holding the ready text: break
        /\ obs' = [obs EXCEPT !.patternSeen = TRUE]
     \/ UNCHANGED obs      \* end of file: the loop ends
  /\ Return(IF Root \in alive THEN "true" ELSE "false")
  /\ UNCHANGED <<cfgVars, asideVars, logVars, procVars, suiteVars, m, who, loopVars, runVars,
                 progVars, testObs, stopsDone, runObs, sigObs>>

\* (mutant of Capped: the newest line is dropped instead of the oldest)
Capped_DropNewest(buf) ==
  IF Len(buf) > LogCap THEN SubSeq(buf, 1, Len(buf) - 1) ELSE buf

\* The cap of log_buffer: past LogCap entries, pop(0).
Capped(buf) == IF Len(buf) > LogCap THEN Tail(buf) ELSE buf

\* The log thread of ServiceTestSuite reads one line of the service's output
\* (pat: the line holds ready_pattern): the line is appended to log_buffer,
\* the event is set on a pattern line, the buffer is capped.
process_service_logs(pat) ==
  /\ prog = "running" /\ log_thread = "running"
  /\ alive # {} /\ linesRead < lineLimit
  /\ pat => cfg.ready_pattern
  /\ linesRead' = linesRead + 1
  /\ log_buffer' = Capped(Append(log_buffer, linesRead + 1))
  /\ service_ready' = (service_ready \/ pat)
  /\ obs' = [obs EXCEPT !.patternSeen = @ \/ pat,
                        !.lateLog = @ \/ (m = "stop" /\ mpc = "done")]
  /\ UNCHANGED <<cfgVars, asideVars, log_thread, lineLimit, service_process, alive, suiteVars, callVars, loopVars,
                 runVars, progVars, testObs, stopsDone, runObs, sigObs>>

\* The log thread ends: no process is left that holds the slave end of the
\* pty, readline meets the end of the output (or raises), the thread closes
\* master_fd.
log_thread_exit ==
  /\ prog = "running" /\ log_thread = "running"
  /\ alive = {}
  /\ log_thread' = "finished"
  /\ UNCHANGED <<cfgVars, asideVars, log_buffer, linesRead, lineLimit, procVars, suiteVars, callVars, loopVars,
                 runVars, progVars, obs, testObs, stopsDone, runObs, sigObs>>

\* ------------------------------------------------------------- environment
\* A process of the tree forks another: the service spawns a worker while it
\* starts up (a worker spawned later, before the stop, is to stop_service the
\* same as this one), or a process not among those stop_service has enumerated
\* comes to life while stop_service is at work.
Spawn(c) ==
  /\ prog = "running" /\ c \notin alive
  /\ \/ m = "start" /\ mpc # "done" /\ Root \in alive
     \/ m = "stop" /\ mpc \notin {"entry", "done"} /\ alive # {}
                   /\ c \notin enumerated
  /\ alive' = alive \cup {c}
  /\ UNCHANGED <<cfgVars, asideVars, logVars, service_process, service_ready, suiteVars, callVars,
                 loopVars, runVars, progVars, obs, testObs, stopsDone, runObs,
                 sigObs>>

\* A process of the tree exits on its own (and is reaped by its parent).
ProcExit(p) ==
  /\ prog = "running"
  /\ p \in alive
  /\ alive' = alive \ {p}
  /\ UNCHANGED <<cfgVars, asideVars, logVars, service_process, service_ready, suiteVars, callVars,
                 loopVars, runVars, progVars, obs, testObs, stopsDone, runObs,
                 sigObs>>

\* -------------------------------------------------- wait_for_service_ready
\* ServiceTestSuite returns True at once when no health_check is configured.
wait_for_service_ready_entry ==
  /\ Running("wait", "entry")
  /\ IF variant = "multi" /\ ~cfg.health_check
       THEN Return("true") /\ UNCHANGED obs
       ELSE /\ mpc' = "loop" /\ UNCHANGED ret
            /\ obs' = [obs EXCEPT !.polled = TRUE]
  /\ UNCHANGED <<cfgVars, asideVars, logVars, procVars, suiteVars, m, who, loopVars, runVars,
                 progVars, testObs, stopsDone, runObs, sigObs>>

\* What the probe does with one answer: only status 200 ends the wait.
ProbeAccepts(resp) == resp = HTTP_OK

\* One iteration of the polling loop: the timeout test, one GET, then either
\* return True or sleep.
wait_for_service_ready_poll ==
  /\ Running("wait", "loop")
  /\ IF elapsed >= Timeout
       THEN Return("false") /\ UNCHANGED <<elapsed, obs>>
       ELSE \E resp \in Responses :
              /\ obs' = [obs EXCEPT !.saw2xx = @ \/ Is2xx(resp),
                                    !.late = @ \/ obs.saw2xx]
              /\ IF ProbeAccepts(resp)
                   THEN Return("true") /\ UNCHANGED elapsed
                   ELSE elapsed' = elapsed + 1 /\ UNCHANGED <<mpc, ret>>
  /\ UNCHANGED <<cfgVars, asideVars, logVars, procVars, suiteVars, m, who, idx, all_success,
                 enumerated, todo, runVars, progVars, testObs, stopsDone,
                 runObs, sigObs>>

\* ------------------------------------------------------ run_tests / run_test
\* (mutant of TestsGuardFails: the poll() test is forgotten)
TestsGuardFails_NoPoll == service_process = "None"

\* The guard of run_tests: no process handle, or poll() reports an exit.
TestsGuardFails == service_process = "None" \/ Root \notin alive

run_tests_entry ==
  /\ Running("tests", "entry")
  /\ obs' = [obs EXCEPT !.guarded = TRUE, !.svcUp = SvcRunning]
  /\ IF TestsGuardFails
       THEN Return("false")
       ELSE mpc' = "loop" /\ UNCHANGED ret
  /\ UNCHANGED <<cfgVars, asideVars, logVars, procVars, suiteVars, m, who, loopVars, runVars,
                 progVars, testObs, stopsDone, runObs, sigObs>>

\* (mutant of NextTest: the loop is left at the first failing test)
NextTest_Break(i, rc) == IF rc # 0 THEN NTests + 1 ELSE i + 1

\* The loop's next index after a test that exited with rc.
NextTest(i, rc) == i + 1

\* The outcome recorded for exit code rc.
Outcome(rc) == [returncode |-> rc, success |-> (rc = 0)]

\* One loop iteration: subprocess.run the test to completion, record, go on;
\* or subprocess.run raises (the shell cannot be spawned, the output cannot be
\* decoded) and the exception leaves run_tests.  No timeout is passed to
\* subprocess.run, so TimeoutExpired is never raised.
run_tests_step ==
  /\ Running("tests", "loop")
  /\ idx <= NTests
  /\ \/ \E rc \in ExitCodes :
          /\ executed' = Append(executed, [test |-> idx, rc |-> rc])
          /\ IF variant = "multi"
               THEN /\ test_results' = (idx :> Outcome(rc)) @@ test_results
                    /\ obs' = [obs EXCEPT !.recorded = @ + 1]
               ELSE UNCHANGED <<test_results, obs>>
          /\ all_success' = (all_success /\ rc = 0)
          /\ idx' = NextTest(idx, rc)
          /\ UNCHANGED <<mpc, ret, notStarted>>
     \/ /\ notStarted' = notStarted \cup {idx}
        /\ Return("raise")
        /\ UNCHANGED <<executed, test_results, obs, all_success, idx>>
  /\ UNCHANGED <<cfgVars, asideVars, logVars, procVars, success, m, who, elapsed, enumerated, todo,
                 runVars, progVars, stopsDone, runObs, sigObs>>

run_tests_return ==
  /\ Running("tests", "loop")
  /\ idx > NTests
  /\ Return(IF all_success THEN "true" ELSE "false")
  /\ UNCHANGED <<cfgVars, asideVars, logVars, procVars, suiteVars, m, who, loopVars, runVars,
                 progVars, obs, testObs, stopsDone, runObs, sigObs>>

\* ------------------------------------------------------------- stop_service
\* stop_service returns v; a completed call on a started service is counted.
StopReturn(v) ==
  /\ Return(v)
  /\ stopsDone' = IF service_process # "None" THEN stopsDone + 1 ELSE stopsDone

\* The guard of stop_service: there is nothing to stop.
StopGuardIdle == service_process = "None" \/ Root \notin alive

\* The guard, then psutil.Process(pid) and children(recursive=True).
stop_service_entry ==
  /\ Running("stop", "entry")
  /\ obs' = [obs EXCEPT !.svcUp = SvcRunning]
  /\ IF StopGuardIdle
       THEN StopReturn("true") /\ UNCHANGED <<enumerated, todo>>
       ELSE /\ enumerated' = alive \cap Children
            /\ todo' = alive \cap Children
            /\ mpc' = "terminate"
            /\ UNCHANGED <<ret, stopsDone>>
  /\ UNCHANGED <<cfgVars, asideVars, logVars, procVars, suiteVars, m, who, elapsed, idx,
                 all_success, runVars, progVars, testObs, runObs, sigObs>>

\* A signal is sent to the existing process p.
Signalled(p) == obs' = [obs EXCEPT !.sigs = @ + 1, !.signalled = @ \cup {p}]

\* The process p is found gone: psutil raises NoSuchProcess.
Gone(p) == obs' = [obs EXCEPT !.gone = @ \cup {p}]

\* The terminate loop over the enumerated children.  A child that is gone
\* raises psutil.NoSuchProcess: ServiceTester catches it inside the loop,
\* ServiceTestSuite only around the whole teardown, where it returns False.
stop_service_terminate ==
  /\ Running("stop", "terminate")
  /\ todo # {}
  /\ LET c == Min(todo) IN
       IF c \in alive
         THEN /\ Signalled(c)
              /\ todo' = todo \ {c}
              /\ UNCHANGED <<mpc, ret, stopsDone>>
         ELSE IF variant = "single"
           THEN /\ Gone(c)
                /\ todo' = todo \ {c}
                /\ UNCHANGED <<mpc, ret, stopsDone>>
           ELSE /\ Gone(c)
                /\ StopReturn("false")
                /\ UNCHANGED todo
  /\ UNCHANGED <<cfgVars, asideVars, logVars, procVars, suiteVars, m, who, elapsed, idx,
                 all_success, enumerated, runVars, progVars, testObs, runObs,
                 sigObs>>

\* ServiceTestSuite: wait_procs(children, timeout=5).  The children that obey
\* SIGTERM are gone; still_alive is handed to the kill loop.
stop_service_wait_children ==
  /\ Running("stop", "terminate")
  /\ variant = "multi" /\ todo = {}
  /\ \E still \in SUBSET (enumerated \cap alive) :
       /\ alive' = alive \ (enumerated \ still)
       /\ todo' = still
  /\ mpc' = "kill"
  /\ UNCHANGED <<cfgVars, asideVars, logVars, service_process, service_ready, suiteVars, m, who,
                 ret, elapsed, idx, all_success, enumerated, runVars, progVars,
                 obs, testObs, stopsDone, runObs, sigObs>>

\* ServiceTestSuite: the kill loop over still_alive; a child that exited since
\* wait_procs raises NoSuchProcess out of the teardown.
stop_service_kill_child ==
  /\ Running("stop", "kill")
  /\ variant = "multi" /\ todo # {}
  /\ LET c == Min(todo) IN
       IF c \in alive
         THEN /\ Signalled(c)
              /\ alive' = alive \ {c}
              /\ todo' = todo \ {c}
              /\ UNCHANGED <<mpc, ret, stopsDone>>
         ELSE /\ Gone(c)
              /\ StopReturn("false")
              /\ UNCHANGED <<alive, todo>>
  /\ UNCHANGED <<cfgVars, asideVars, logVars, service_process, service_ready, suiteVars, m, who,
                 elapsed, idx, all_success, enumerated, runVars, progVars,
                 testObs, runObs, sigObs>>

\* ServiceTestSuite: terminate the root, wait(timeout=5), kill and wait if it
\* has not exited, join(timeout=2.0) the log thread if it is alive, return
\* True.  The thread ends within the join when no process is left that holds
\* the terminal; otherwise the join times out.
stop_service_root ==
  /\ Running("stop", "kill")
  /\ variant = "multi" /\ todo = {}
  /\ IF Root \in alive
       THEN \E forced \in BOOLEAN :
              obs' = [obs EXCEPT !.sigs = @ + (IF forced THEN 2 ELSE 1),
                                 !.signalled = @ \cup {Root}]
       ELSE UNCHANGED obs
  /\ alive' = alive \ {Root}
  /\ log_thread' = IF log_thread = "running" /\ alive' = {} THEN "finished"
                   ELSE log_thread
  /\ StopReturn("true")
  /\ UNCHANGED <<cfgVars, asideVars, log_buffer, linesRead, lineLimit, service_process, service_ready, suiteVars, m, who,
                 loopVars, runVars, progVars, testObs, runObs, sigObs>>

\* ServiceTester: the root is the last entry of all_procs; then
\* wait_procs(all_procs, timeout=10) leaves the processes that ignored SIGTERM.
stop_service_wait_all ==
  /\ Running("stop", "terminate")
  /\ variant = "single" /\ todo = {}
  /\ IF Root \in alive THEN Signalled(Root) ELSE UNCHANGED obs
  /\ \E still \in SUBSET ((enumerated \cup {Root}) \cap alive) :
       /\ alive' = alive \ ((enumerated \cup {Root}) \ still)
       /\ todo' = still
  /\ mpc' = "kill"
  /\ UNCHANGED <<cfgVars, asideVars, logVars, service_process, service_ready, suiteVars, m, who,
                 ret, elapsed, idx, all_success, enumerated, runVars, progVars,
                 testObs, stopsDone, runObs, sigObs>>

\* ServiceTester: kill whatever is still alive (NoSuchProcess is passed over),
\* return True.
stop_service_kill_all ==
  /\ Running("stop", "kill")
  /\ variant = "single"
  /\ obs' = [obs EXCEPT !.sigs = @ + Cardinality(todo \cap alive),
                        !.signalled = @ \cup (todo \cap alive),
                        !.gone = @ \cup (todo \ alive)]
  /\ alive' = alive \ todo
  /\ todo' = {}
  /\ StopReturn("true")
  /\ UNCHANGED <<cfgVars, asideVars, logVars, service_process, service_ready, suiteVars, m, who,
                 elapsed, idx, all_success, enumerated, runVars, progVars,
                 testObs, runObs, sigObs>>

\* ---------------------------------------------------------------------- run
\* run_tests is entered: the observations of the previous call are dropped.
EnterTests(caller) ==
  /\ Enter("tests", caller)
  /\ executed' = <<>> /\ notStarted' = {}

\* run() calls stop_service.
RunStops(at) ==
  /\ runpc' = at
  /\ Enter("stop", "run")
  /\ runStops' = runStops + 1

Returned(meth) == prog = "running" /\ who = "run" /\ m = meth /\ mpc = "done"

\* main() (or run_serial) calls run(), whose first statement calls start_service.
run_begin ==
  /\ prog = "running" /\ mode = "main" /\ who # "handler"
  /\ runpc = "none"
  /\ runpc' = "start"
  /\ Enter("start", "run")
  /\ UNCHANGED <<cfgVars, asideVars, logVars, procVars, suiteVars, test_success, runRet, progVars,
                 testObs, stopsDone, runObs, sigObs>>

\* start_service has ended: an exception goes to the except clause (which
\* stops the service), False makes run() return False at once, True goes on to
\* the health check.
run_after_start ==
  /\ Returned("start") /\ runpc = "start"
  /\ CASE ret = "raise" ->
            /\ RunStops("stop_except")
            /\ failedAt' = "start"
            /\ UNCHANGED <<runRet, reachedTesting>>
       [] ret = "false" ->
            /\ runpc' = "returned" /\ runRet' = FALSE
            /\ failedAt' = "start"
            /\ UNCHANGED <<callVars, loopVars, obs, runStops, reachedTesting>>
       [] ret = "true" ->
            /\ runpc' = "wait"
            /\ Enter("wait", "run")
            /\ UNCHANGED <<runRet, runObs>>
  /\ UNCHANGED <<cfgVars, asideVars, logVars, procVars, suiteVars, test_success, progVars, testObs,
                 stopsDone, sigObs>>

\* wait_for_service_ready has returned: False stops the service, True goes on
\* to the tests.
run_after_wait ==
  /\ Returned("wait") /\ runpc = "wait"
  /\ IF ret = "true"
       THEN /\ runpc' = "tests"
            /\ EnterTests("run")
            /\ reachedTesting' = TRUE
            /\ UNCHANGED <<runStops, failedAt>>
       ELSE /\ RunStops("stop_notready")
            /\ failedAt' = "wait"
            /\ UNCHANGED <<reachedTesting, testObs>>
  /\ UNCHANGED <<cfgVars, asideVars, logVars, procVars, suiteVars, test_success, runRet, progVars,
                 stopsDone, sigObs>>

\* (mutant of run_after_tests: the except clause returns without stopping)
run_after_tests_NoStop ==
  /\ Returned("tests") /\ runpc = "tests"
  /\ IF ret = "raise"
       THEN /\ runpc' = "returned"
            /\ UNCHANGED <<test_success, callVars, loopVars, obs, runStops>>
       ELSE RunStops("stop_after") /\ test_success' = (ret = "true")
  /\ UNCHANGED <<cfgVars, asideVars, logVars, procVars, suiteVars, runRet, progVars, testObs,
                 stopsDone, reachedTesting, failedAt, sigObs>>

\* run_tests has ended: its value is kept and the service stopped; an
\* exception goes to the except clause, which stops the service.
run_after_tests ==
  /\ Returned("tests") /\ runpc = "tests"
  /\ IF ret = "raise"
       THEN RunStops("stop_except") /\ UNCHANGED test_success
       ELSE RunStops("stop_after") /\ test_success' = (ret = "true")
  /\ UNCHANGED <<cfgVars, asideVars, logVars, procVars, suiteVars, runRet, progVars, testObs,
                 stopsDone, reachedTesting, failedAt, sigObs>>

\* stop_service has returned (its value is ignored): run() returns.
run_after_stop ==
  /\ Returned("stop")
  /\ runpc \in {"stop_notready", "stop_after", "stop_except"}
  /\ runpc' = "returned"
  /\ IF runpc = "stop_after"
       THEN /\ runRet' = test_success
            /\ success' = IF variant = "multi" THEN test_success ELSE success
       ELSE /\ runRet' = FALSE
            /\ UNCHANGED success
  /\ UNCHANGED <<cfgVars, asideVars, logVars, procVars, test_results, callVars, loopVars,
                 test_success, progVars, obs, testObs, stopsDone, runObs,
                 sigObs>>

\* --------------------------------------------------------- main and signals
\* sys.exit(0 if success else 1)
main_exit ==
  /\ prog = "running" /\ mode = "main" /\ who # "handler"
  /\ runpc = "returned"
  /\ prog' = "exited"
  /\ exitCode' = IF runRet THEN 0 ELSE 1
  /\ UNCHANGED <<cfgVars, asideVars, logVars, procVars, suiteVars, callVars, loopVars, runVars,
                 calls, obs, testObs, stopsDone, runObs, sigObs>>

\* ServiceTester._signal_handler: SIGINT or SIGTERM interrupts the main thread
\* wherever it is; the handler calls stop_service ...  (One signal is
\* followed; a second one during the handler would only run the handler again.)
signal_handler ==
  /\ prog = "running" /\ mode = "main" /\ variant = "single"
  /\ who # "handler"
  /\ Enter("stop", "handler")
  /\ interrupted' = TRUE
  /\ sigRunning' = (sigRunning \/ SvcRunning)
  /\ sigStop' = TRUE
  /\ UNCHANGED <<cfgVars, asideVars, logVars, procVars, suiteVars, runVars, progVars, testObs,
                 stopsDone, runObs>>

\* ... and then sys.exit(0).
signal_handler_exit ==
  /\ prog = "running" /\ who = "handler" /\ m = "stop" /\ mpc = "done"
  /\ prog' = "exited"
  /\ exitCode' = 0
  /\ UNCHANGED <<cfgVars, asideVars, logVars, procVars, suiteVars, callVars, loopVars, runVars,
                 calls, obs, testObs, stopsDone, runObs, sigObs>>

\* run_multi_sglang_tests.py installs no handler: SIGINT raises
\* KeyboardInterrupt in the main thread, which no `except Exception` catches,
\* and SIGTERM ends the interpreter; either way the program is gone with a
\* non-zero status (130 / 143) and no further statement runs.
signal_default ==
  /\ prog = "running" /\ mode = "main" /\ variant = "multi"
  /\ \E sig \in {"SIGINT", "SIGTERM"} :
       exitCode' = IF sig = "SIGINT" THEN 130 ELSE 143
  /\ prog' = "exited"
  /\ interrupted' = TRUE
  /\ sigRunning' = (sigRunning \/ SvcRunning)
  /\ UNCHANGED <<cfgVars, asideVars, logVars, procVars, suiteVars, callVars, loopVars, runVars,
                 calls, obs, testObs, stopsDone, runObs, sigStop>>

\* ------------------------------------------------------------------ caller
\* The api caller invokes a public method once the previous one has ended.  It
\* starts a service only on a harness that holds none.
Methods == {"start", "wait", "tests", "stop"}

client_call(meth) ==
  /\ prog = "running" /\ mode = "api"
  /\ mpc = "done" /\ calls < MaxCalls
  /\ meth = "start" => service_process = "None"
  /\ calls' = calls + 1
  /\ IF meth = "tests" THEN EnterTests("client")
                       ELSE Enter(meth, "client") /\ UNCHANGED testObs
  /\ UNCHANGED <<cfgVars, asideVars, logVars, procVars, suiteVars, runVars, prog, exitCode,
                 stopsDone, runObs, sigObs>>

\* ---------------------------------------------------------- specification
Next ==
  \/ start_service_spawn
  \/ start_service_poll
  \/ start_service_sleep
  \/ start_service_readline
  \/ \E pat \in BOOLEAN : process_service_logs(pat)
  \/ log_thread_exit
  \/ \E c \in Children : Spawn(c)
  \/ \E p \in Procs : ProcExit(p)
  \/ wait_for_service_ready_entry
  \/ wait_for_service_ready_poll
  \/ run_tests_entry
  \/ run_tests_step
  \/ run_tests_return
  \/ stop_service_entry
  \/ stop_service_terminate
  \/ stop_service_wait_children
  \/ stop_service_kill_child
  \/ stop_service_root
  \/ stop_service_wait_all
  \/ stop_service_kill_all
  \/ run_begin
  \/ run_after_start
  \/ run_after_wait
  \/ run_after_tests
  \/ run_after_stop
  \/ main_exit
  \/ signal_handler
  \/ signal_handler_exit
  \/ signal_default
  \/ \E meth \in Methods : client_call(meth)

Spec == Init /\ [][Next]_vars

\* The steps the harness completes by itself within a bounded time: plain
\* statements, and waits that carry a timeout (the 0.5 s polls of
\* start_service under config 'timeout', requests.get(timeout=5),
\* wait_procs(timeout=...), wait(timeout=5), join(timeout=2.0)).  Left out are
\* the waits that end only when the environment acts: the readline of
\* ServiceTester.start_service, ServiceTester's requests.get (no timeout) and
\* subprocess.run of a test command (no timeout).
BoundedStep ==
  \/ start_service_spawn
  \/ start_service_poll
  \/ start_service_sleep
  \/ wait_for_service_ready_entry
  \/ (variant = "multi" /\ wait_for_service_ready_poll)
  \/ run_tests_entry
  \/ run_tests_return
  \/ stop_service_entry
  \/ stop_service_terminate
  \/ stop_service_wait_children
  \/ stop_service_kill_child
  \/ stop_service_root
  \/ stop_service_wait_all
  \/ stop_service_kill_all
  \/ run_begin
  \/ run_after_start
  \/ run_after_wait
  \/ run_after_tests
  \/ run_after_stop
  \/ main_exit
  \/ signal_handler_exit

\* The harness under a scheduler that lets the interpreter run: a bounded step
\* that stays possible is taken.  Nothing obliges the service to print, the
\* health endpoint to answer or a test command to exit.
FairSpec == Spec /\ WF_vars(BoundedStep)

\* ------------------------------------------------- a long-running service
\* ServiceTestSuite.start_service has started the service and its log thread
\* (the state start_service_spawn leaves); the service goes on printing.
LogInit ==
  /\ variant = "multi" /\ mode = "api"
  /\ cfg \in [ready_pattern : BOOLEAN, health_check : {FALSE}]
  /\ service_process = "Popen"
  /\ alive = {Root}
  /\ service_ready = FALSE
  /\ success = FALSE
  /\ test_results = <<>>
  /\ m = "start" /\ mpc = (IF cfg.ready_pattern THEN "poll" ELSE "sleep")
  /\ who = "client" /\ ret = "none"
  /\ elapsed = 0 /\ idx = 1 /\ all_success = TRUE
  /\ enumerated = {} /\ todo = {}
  /\ runpc = "none" /\ test_success = FALSE /\ runRet = FALSE
  /\ prog = "running" /\ exitCode = 0 /\ calls = 1
  /\ obs = NoObs
  /\ executed = <<>> /\ notStarted = {}
  /\ stopsDone = 0
  /\ runStops = 0 /\ reachedTesting = FALSE /\ failedAt = "none"
  /\ interrupted = FALSE /\ sigRunning = FALSE /\ sigStop = FALSE
  /\ log_thread = "running" /\ log_buffer = <<>>
  /\ linesRead = 0 /\ lineLimit = MaxLogLines
  /\ TraceIdle /\ ParIdle

\* The log thread at work until the service exits.
LogNext ==
  \/ \E pat \in BOOLEAN : process_service_logs(pat)
  \/ ProcExit(Root)
  \/ log_thread_exit

LogSpec == LogInit /\ [][LogNext]_vars

\* ======================================================= the trace analyzer
\* analyze_kernel_events (src/extrace_trace.py) reads a Chrome trace and sums
\* the durations of its "kernel" records by name.  A record of traceEvents is
\* any JSON value; a map is modelled by its 'cat', 'name' and 'dur' entries,
\* each with the kind of value it holds.  Durations are fixed-point numbers in
\* thousandths of a microsecond, so that round(x, 3) is rounding to an integer.
KernelNames == {"matmul", "softmax"}
Cats        == {"kernel", "cpu_op"}
NameValues  == {[t |-> "str", v |-> n] : n \in KernelNames}
                 \cup {[t |-> "missing", v |-> ""], [t |-> "number", v |-> ""]}
DurValues   == {[t |-> "num", v |-> d] : d \in 1..MaxDur}
                 \cup {[t |-> "bool", v |-> 1],       \* JSON true
                       [t |-> "missing", v |-> 0], [t |-> "str", v |-> 0]}
\* a record that is not a map (a number, a string, a list, null)
NonMap      == [map |-> FALSE, cat |-> "", name |-> [t |-> "missing", v |-> ""],
                dur |-> [t |-> "missing", v |-> 0]]
Events      == [map : {TRUE}, cat : Cats, name : NameValues, dur : DurValues]
                 \cup {NonMap}
EventLists  == UNION {[1..n -> Events] : n \in 0..MaxEvents}
TraceFiles  == {"ok", "missing", "invalid_json", "no_traceEvents"}

\* isinstance(event["name"], str)
IsStr(x) == x.t = "str"
\* isinstance(event["dur"], (int, float)): a bool is an int
IsNumber(x) == x.t \in {"num", "bool"}

\* round(total / count, 3), the tie rounded up
RoundDiv(a, b) == (2 * a + b) \div (2 * b)

\* The state of the loop over traceEvents: kernel_stats, the order in which
\* its keys were inserted, and whether a statement has raised.
NoStats == [kernel_stats |-> <<>>, order |-> <<>>, raised |-> FALSE]

\* One iteration of the loop.  event.get("cat") is evaluated first: on a
\* record that is not a map it raises AttributeError.
LoopBody(acc, event) ==
  IF acc.raised THEN acc
  ELSE IF ~event.map THEN [acc EXCEPT !.raised = TRUE]
  ELSE IF event.cat # "kernel" THEN acc
  ELSE IF ~IsStr(event.name) THEN acc
  ELSE IF ~IsNumber(event.dur) THEN acc
  ELSE LET kernel_name == event.name.v
           seen == kernel_name \in DOMAIN acc.kernel_stats
           old  == IF seen THEN acc.kernel_stats[kernel_name]
                   ELSE [total_duration_us |-> 0, count |-> 0]
           new  == [total_duration_us |-> old.total_duration_us + event.dur.v,
                    count |-> old.count + 1]
       IN  [acc EXCEPT
              !.kernel_stats = (kernel_name :> new) @@ acc.kernel_stats,
              !.order = IF seen THEN @ ELSE Append(@, kernel_name)]

RECURSIVE Loop(_, _)
Loop(acc, events) ==
  IF events = <<>> THEN acc
  ELSE Loop(LoopBody(acc, Head(events)), Tail(events))

\* The row built for one kernel.
Row(kernel, stats) ==
  [kernel |-> kernel,
   total_duration_us |-> stats.total_duration_us,
   count |-> stats.count,
   avg_duration_us |-> RoundDiv(stats.total_duration_us, stats.count)]

\* (mutant of Before: the sort is ascending)
Before_Ascending(a, b) == a.total_duration_us <= b.total_duration_us

\* sorted(..., key=total_duration_us, reverse=True): a stays before b.
Before(a, b) == a.total_duration_us >= b.total_duration_us

RECURSIVE Insert(_, _)
Insert(row, rows) ==
  IF rows = <<>> THEN <<row>>
  ELSE IF Before(Head(rows), row) THEN <<Head(rows)>> \o Insert(row, Tail(rows))
  ELSE <<row>> \o rows

\* sorted(): stable, so rows are inserted in their order in the list.
RECURSIVE Sorted(_)
Sorted(rows) ==
  IF rows = <<>> THEN <<>>
  ELSE Insert(rows[Len(rows)], Sorted(SubSeq(rows, 1, Len(rows) - 1)))

\* What the function returns for a list of records: the sorted rows, or [] from
\* `except Exception` when a statement raised.
AnalyzeEvents(events) ==
  LET acc == Loop(NoStats, events) IN
    IF acc.raised THEN <<>>
    ELSE Sorted([i \in 1..Len(acc.order) |->
                   Row(acc.order[i], acc.kernel_stats[acc.order[i]])])

\* analyze_kernel_events(trace_file): a file that is missing, is not JSON or
\* has no traceEvents gives [].
analyze_kernel_events ==
  /\ tpc = "called"
  /\ result' = IF trace_file = "ok" THEN AnalyzeEvents(trace_events) ELSE <<>>
  /\ tpc' = "returned"
  /\ UNCHANGED <<harnessVars, parVars, testerVars, trace_file, trace_events>>

\* The analyzer is called on a trace file; no harness is at work.
TraceInit ==
  /\ HarnessInit
  /\ variant = "multi" /\ mode = "api"
  /\ cfg = [ready_pattern |-> FALSE, health_check |-> FALSE]
  /\ trace_file \in TraceFiles
  /\ trace_events \in (IF trace_file = "ok" THEN EventLists ELSE {<<>>})
  /\ result = <<>>
  /\ tpc = "called"
  /\ ParIdle

TraceNext == analyze_kernel_events

TraceSpec == TraceInit /\ [][TraceNext]_vars

\* ============================================================ parallel mode
\* MultiServiceTester.run_parallel starts one thread per suite, each running
\* ServiceTestSuite.run() on its own suite object, and joins them all.  A
\* suite's lifecycle is taken in its steps start / wait / tests / stop; what
\* its service and its tests do is the environment's choice, kept in outcomes.
Suites == 1..NSuites

\* ServiceTestSuite.__init__: the attributes of a new suite.
NewSuite(pattern) ==
  [ready_pattern |-> pattern, pc |-> "idle", service_process |-> 0,
   service_ready |-> FALSE, log_buffer |-> <<>>, test_results |-> <<>>,
   test_success |-> FALSE, success |-> FALSE,
   ret |-> "none"]        \* what the suite's run() returned

NoOutcome ==
  [readyLine |-> FALSE,   \* the suite's service has printed a ready line
   started |-> FALSE,     \* ... and had done so when start_service decided
   healthy |-> FALSE,     \* the suite's health probe was answered
   up |-> FALSE,          \* the suite's service was running at run_tests
   passed |-> FALSE]      \* every test of the suite exited 0

\* MultiServiceTester.__init__: load_config has made one suite per entry of
\* the configuration file.
SuitesLoaded ==
  /\ HarnessInit
  /\ variant = "multi" /\ mode = "api"
  /\ cfg = [ready_pattern |-> FALSE, health_check |-> FALSE]
  /\ TraceIdle
  /\ \E patterns \in [Suites -> BOOLEAN] :
       suites = [i \in Suites |-> NewSuite(patterns[i])]
  /\ nextStart = 1
  /\ par_ret = "none"
  /\ outcomes = [i \in Suites |-> NoOutcome]
  /\ serial_all_success = TRUE
  /\ report = <<>>

ParInit == SuitesLoaded /\ parallel = TRUE

\* run_parallel: thread.start() for the next suite.
run_parallel_start ==
  /\ parallel
  /\ nextStart <= NSuites
  /\ suites' = [suites EXCEPT ![nextStart].pc = "run"]
  /\ nextStart' = nextStart + 1
  /\ UNCHANGED <<par_ret, outcomes, harnessVars, traceVars, testerVars>>

\* run() of suite i calls start_service: Popen gives the suite its own process
\* (named i here) and log thread, or raises and run() returns False.
suite_start(i) ==
  /\ suites[i].pc = "run"
  /\ \/ suites' = [suites EXCEPT ![i].service_process = i, ![i].pc = "starting"]
     \/ suites' = [suites EXCEPT ![i].pc = "returned", ![i].ret = "false"]
  /\ UNCHANGED <<nextStart, par_ret, outcomes, harnessVars, traceVars, testerVars>>

\* (mutant of ReadyAfterLine: one Event shared by all suites)
ReadyAfterLine_Shared(all, i, pat) ==
  [j \in Suites |-> [all[j] EXCEPT !.service_ready = @ \/ pat]]

\* self.service_ready.set() of suite i on a line holding its ready_pattern.
ReadyAfterLine(all, i, pat) ==
  [all EXCEPT ![i].service_ready = @ \/ pat]

\* The lines the services of the suites in S have printed so far.
RECURSIVE LinesPrinted(_)
LinesPrinted(S) ==
  IF S = {} THEN 0
  ELSE LET i == CHOOSE j \in S : TRUE
       IN  Len(suites[i].log_buffer) + LinesPrinted(S \ {i})

\* The log thread of suite i reads a line from the terminal of its own
\* service: the line goes to the suite's log_buffer, a pattern line sets the
\* suite's event.  (The services print MaxLines lines between them.)
suite_log(i, pat) ==
  /\ suites[i].pc \in {"starting", "waiting", "testing", "stopping"}
  /\ LinesPrinted(Suites) < MaxLines
  /\ pat => suites[i].ready_pattern
  /\ LET line == [service |-> i, n |-> Len(suites[i].log_buffer) + 1]
         logged == [suites EXCEPT ![i].log_buffer = Capped(Append(@, line))]
     IN  suites' = ReadyAfterLine(logged, i, pat)
  /\ outcomes' = [outcomes EXCEPT ![i].readyLine = @ \/ pat]
  /\ UNCHANGED <<nextStart, par_ret, harnessVars, traceVars, testerVars>>

\* start_service of suite i ends: with a ready_pattern, True once its event is
\* set or False at the timeout (run() returns False); without, True after the
\* sleep.
suite_started(i) ==
  /\ suites[i].pc = "starting"
  /\ IF suites[i].ready_pattern
       THEN \/ /\ suites[i].service_ready
               /\ suites' = [suites EXCEPT ![i].pc = "waiting"]
               /\ outcomes' = [outcomes EXCEPT ![i].started = outcomes[i].readyLine]
            \/ /\ suites' = [suites EXCEPT ![i].pc = "returned",
                                             ![i].ret = "false"]
               /\ UNCHANGED outcomes
       ELSE /\ suites' = [suites EXCEPT ![i].pc = "waiting"]
            /\ outcomes' = [outcomes EXCEPT ![i].started = TRUE]
  /\ UNCHANGED <<nextStart, par_ret, harnessVars, traceVars, testerVars>>

\* wait_for_service_ready of suite i ends: True goes on to the tests, False to
\* stop_service.
suite_waited(i) ==
  /\ suites[i].pc = "waiting"
  /\ \E ok \in BOOLEAN :
       /\ suites' = [suites EXCEPT ![i].pc = IF ok THEN "testing" ELSE "failed"]
       /\ outcomes' = [outcomes EXCEPT ![i].healthy = ok]
  /\ UNCHANGED <<nextStart, par_ret, harnessVars, traceVars, testerVars>>

\* run_tests of suite i: False from the guard when its service has exited,
\* otherwise every test is run and recorded in the suite's test_results.
suite_tested(i) ==
  /\ suites[i].pc = "testing"
  /\ \/ /\ suites' = [suites EXCEPT ![i].test_success = FALSE,
                                       ![i].pc = "stopping"]
        /\ UNCHANGED outcomes
     \/ \E rcs \in [Tests -> {0, 1}] :
          /\ suites' = [suites EXCEPT
                          ![i].test_results = [t \in Tests |-> Outcome(rcs[t])],
                          ![i].test_success = (\A t \in Tests : rcs[t] = 0),
                          ![i].pc = "stopping"]
          /\ outcomes' = [outcomes EXCEPT ![i].up = TRUE,
                                         ![i].passed = (\A t \in Tests : rcs[t] = 0)]
  /\ UNCHANGED <<nextStart, par_ret, harnessVars, traceVars, testerVars>>

\* (mutant of RunReturn: run() reports that it completed)
RunReturn_Completed(s) ==
  IF s.pc = "stopping" THEN "true" ELSE "false"

\* What run() returns once stop_service is back: test_success after the
\* tests, False after a failed wait or an exception.
RunReturn(s) ==
  IF s.pc = "stopping" /\ s.test_success THEN "true" ELSE "false"

\* stop_service of suite i has returned: after the tests, self.success =
\* test_success and run() returns test_success; after a failed wait or an
\* exception, run() returns False.
suite_stopped(i) ==
  /\ suites[i].pc \in {"stopping", "failed"}
  /\ suites' = [suites EXCEPT
                  ![i].success = IF suites[i].pc = "stopping"
                                   THEN suites[i].test_success ELSE @,
                  ![i].ret = RunReturn(suites[i]),
                  ![i].pc = "returned"]
  /\ UNCHANGED <<nextStart, par_ret, outcomes, harnessVars, traceVars, testerVars>>

\* run_parallel: every thread is joined; all([suite.success ...]).
run_parallel_join ==
  /\ parallel
  /\ nextStart > NSuites /\ par_ret = "none"
  /\ \A i \in Suites : suites[i].pc = "returned"
  /\ par_ret' = IF \A i \in Suites : suites[i].success THEN "true" ELSE "false"
  /\ UNCHANGED <<suites, nextStart, outcomes, harnessVars, traceVars, testerVars>>

\* A step of the thread of suite i (its run() and its log thread).
SuiteStep(i) ==
  \/ suite_start(i)
  \/ \E pat \in BOOLEAN : suite_log(i, pat)
  \/ suite_started(i)
  \/ suite_waited(i)
  \/ suite_tested(i)
  \/ suite_stopped(i)

ParNext ==
  \/ run_parallel_start
  \/ \E i \in Suites : suite_start(i)
  \/ \E i \in Suites, pat \in BOOLEAN : suite_log(i, pat)
  \/ \E i \in Suites : suite_started(i)
  \/ \E i \in Suites : suite_waited(i)
  \/ \E i \in Suites : suite_tested(i)
  \/ \E i \in Suites : suite_stopped(i)
  \/ run_parallel_join

ParSpec == ParInit /\ [][ParNext]_vars

\* ===================================================== one run of main()
\* main() makes a MultiServiceTester, runs its suites with run_parallel or
\* run_serial as args.parallel says, and may then call generate_report.

\* run_tests of suite i raises in subprocess.run (the output of a test is not
\* valid text) after the first k tests were recorded: run() catches it, calls
\* stop_service and returns False.
suite_tests_raised(i) ==
  /\ suites[i].pc = "testing"
  /\ \E k \in 0..(NTests - 1) : \E rcs \in [1..k -> {0, 1}] :
       suites' = [suites EXCEPT
                    ![i].test_results = [t \in 1..k |-> Outcome(rcs[t])],
                    ![i].pc = "failed"]
  /\ outcomes' = [outcomes EXCEPT ![i].up = TRUE]
  /\ UNCHANGED <<nextStart, par_ret, harnessVars, traceVars, testerVars>>

\* run_serial: suite.run() is called for the next suite of the loop.
run_serial_call ==
  /\ ~parallel
  /\ nextStart <= NSuites
  /\ suites[nextStart].pc = "idle"
  /\ suites' = [suites EXCEPT ![nextStart].pc = "run"]
  /\ UNCHANGED <<nextStart, par_ret, outcomes, harnessVars, traceVars,
                 testerVars>>

\* run_serial: suite.run() has returned; `if not success: all_success = False`.
run_serial_next ==
  /\ ~parallel
  /\ nextStart <= NSuites
  /\ suites[nextStart].pc = "returned"
  /\ serial_all_success' =
       (serial_all_success /\ suites[nextStart].ret = "true")
  /\ nextStart' = nextStart + 1
  /\ UNCHANGED <<suites, par_ret, outcomes, harnessVars, traceVars,
                 parallel, report>>

\* run_serial: the loop is over; return all_success.
run_serial_return ==
  /\ ~parallel
  /\ nextStart > NSuites /\ par_ret = "none"
  /\ par_ret' = IF serial_all_success THEN "true" ELSE "false"
  /\ UNCHANGED <<suites, nextStart, outcomes, harnessVars, traceVars,
                 testerVars>>

\* sum([1 for s in self.suites if s.success])
SuccessCount(all) ==
  Cardinality({i \in DOMAIN all : all[i].success})

\* The report generate_report builds from the suites (its timestamp, which
\* nothing reads, is left out; a suite's name is its index).
Report(all) ==
  [total_suites |-> Len(all),
   success_suites |-> SuccessCount(all),
   suites |-> [i \in DOMAIN all |->
                 [name |-> i, success |-> all[i].success,
                  test_results |-> all[i].test_results]]]

\* main(): generate_report is called once run_parallel / run_serial has
\* returned, when a report file was asked for.  Writing the file may fail;
\* the report returned is the same.
generate_report ==
  /\ par_ret # "none" /\ report = <<>>
  /\ report' = <<Report(suites)>>
  /\ UNCHANGED <<parVars, harnessVars, traceVars, parallel,
                 serial_all_success>>

TesterInit == SuitesLoaded /\ parallel \in BOOLEAN

TesterNext ==
  \/ run_parallel_start
  \/ run_serial_call
  \/ \E i \in Suites : suite_start(i)
  \/ \E i \in Suites, pat \in BOOLEAN : suite_log(i, pat)
  \/ \E i \in Suites : suite_started(i)
  \/ \E i \in Suites : suite_waited(i)
  \/ \E i \in Suites : suite_tested(i)
  \/ \E i \in Suites : suite_tests_raised(i)
  \/ \E i \in Suites : suite_stopped(i)
  \/ run_serial_next
  \/ run_serial_return
  \/ run_parallel_join
  \/ generate_report

TesterSpec == TesterInit /\ [][TesterNext]_vars

\* ================================================================== claims

\* C1: whenever run() has returned, on any exit path, the service process
\* that start_service launched is no longer running.
C1_ServiceStoppedOnReturn ==
  runpc = "returned" => Root \notin alive

\* C2: once run() has reached the testing step, stop_service() has been
\* invoked exactly once (and has ended) by the time run() returns, however
\* run_tests ended: True, False, the early return of its guard, an exception.
C2_StopOnceAfterTesting ==
  (runpc = "returned" /\ reachedTesting)
     => /\ runStops = 1
        /\ who = "run" => (m = "stop" /\ mpc = "done")

\* run() has returned after a run_tests that raised, having stopped once.
C2_Witness ==
  /\ runpc = "returned" /\ reachedTesting
  /\ notStarted # {}
  /\ runStops = 1

\* C3: if start_service or wait_for_service_ready fails, run() executes no
\* test, still invokes stop_service() after the start attempt, and returns
\* False with the success flag False.
C3_FailureSkipsTestsAndStops ==
  (runpc = "returned" /\ failedAt # "none")
     => /\ ~reachedTesting /\ executed = <<>>
        /\ runStops >= 1
        /\ ~runRet /\ ~success

\* C4: a SIGINT or SIGTERM that arrives while the supervised service process
\* is running causes stop_service() to be invoked before the program exits,
\* in both variants.
C4_SignalStopsService ==
  (prog = "exited" /\ sigRunning) => sigStop

\* The suite succeeded: run() reached the tests and every test command
\* exited 0.
SuiteSucceeded ==
  /\ reachedTesting
  /\ notStarted = {}
  /\ Len(executed) = NTests
  /\ \A i \in 1..Len(executed) : executed[i].rc = 0

\* C5: the program exits with code 0 if and only if the suite succeeded (run()
\* ran to its end and every test command exited 0); on every other path by
\* which it exits, a run cut short by a signal included, the code is non-zero.
C5_ExitZeroIffSuccess ==
  prog = "exited"
     => (exitCode = 0 <=> (runpc = "returned" /\ SuiteSucceeded /\ ~interrupted))

\* C6: stop_service() is idempotent: after a first completed call on a
\* started service, a further call sends no signal, does not go past its
\* guard, and returns True.
C6_StopIdempotent ==
  (m = "stop" /\ ( (mpc # "done" /\ stopsDone >= 1)
                \/ (mpc = "done" /\ stopsDone >= 2) ))
     => /\ obs.sigs = 0
        /\ mpc \in {"entry", "done"}
        /\ mpc = "done" => ret = "true"

\* C7: wait_for_service_ready, when it polls, returns True if and only if
\* some GET attempt observed a 2xx response, issues no request after the
\* first such response, and never raises.
C7_ReadyIffSuccessSeen ==
  (m = "wait" /\ obs.polled)
     => /\ ~obs.late
        /\ mpc = "done" => /\ ret \in {"true", "false"}
                           /\ (ret = "true") <=> obs.saw2xx

C9_UnstartableTestRecorded ==
  (m = "tests" /\ notStarted # {})
     => /\ ret # "raise"
        /\ variant = "multi" =>
             \A t \in notStarted : /\ t \in DOMAIN test_results
                                   /\ ~test_results[t].success

\* C10: if the service process was never started or has already exited when
\* run_tests is called, run_tests returns False having executed no test
\* command and recorded no outcome.
C10_NoTestsWhenServiceDown ==
  (m = "tests" /\ obs.guarded /\ ~obs.svcUp)
     => /\ mpc = "done" /\ ret = "false"
        /\ executed = <<>> /\ notStarted = {}
        /\ obs.recorded = 0

\* run() has called run_tests on a service that had exited since it became
\* ready.
C10_Witness ==
  /\ m = "tests" /\ who = "run" /\ mpc = "done"
  /\ obs.guarded /\ ~obs.svcUp
  /\ service_process = "Popen"

\* C11: with a ready pattern configured, start_service returns success only
\* after a line of the service's output holding the pattern has been read, and
\* returns failure when no such line has appeared by the timeout; with no
\* pattern configured it returns success after the fallback delay.  (Stated of
\* a start_service whose Popen succeeded.)
C11_ReadyOnlyAfterPattern ==
  (m = "start" /\ mpc = "done" /\ service_process = "Popen")
     => /\ (cfg.ready_pattern /\ ret = "true") => obs.patternSeen
        /\ (cfg.ready_pattern /\ ~obs.patternSeen) => ret = "false"
        /\ ~cfg.ready_pattern => ret = "true"

\* C12: run() always eventually returns (or the program is ended by a
\* signal): every wait inside it ends after a bounded time, even when the
\* service never prints the ready line, the health endpoint never answers and
\* a test command never exits.
C12_RunReturns ==
  (runpc = "start") ~> (runpc = "returned" \/ prog = "exited")

\* A valid kernel record in the claims' terms: a map of category "kernel"
\* with a string name and a numeric duration.
ValidKernelEvent(e) ==
  e.map /\ e.cat = "kernel" /\ e.name.t = "str" /\ e.dur.t = "num"

\* The positions of the valid kernel records named n.
Qualifying(n) ==
  {i \in 1..Len(trace_events) :
     ValidKernelEvent(trace_events[i]) /\ trace_events[i].name.v = n}

RECURSIVE SumDur(_)
SumDur(I) ==
  IF I = {} THEN 0
  ELSE LET i == CHOOSE j \in I : TRUE
       IN  trace_events[i].dur.v + SumDur(I \ {i})

\* C13: for every event list, analyze_kernel_events reports exactly one row
\* per kernel name that has at least one valid event of category "kernel";
\* the row's count is the number of such events, its total the sum of their
\* durations and its average total / count (to the nearest thousandth); names
\* with no qualifying event never appear and events of another category never
\* contribute.
C13_OneRowPerKernel ==
  (tpc = "returned" /\ trace_file = "ok")
     => /\ \A i, j \in 1..Len(result) :
             result[i].kernel = result[j].kernel => i = j
        /\ {result[i].kernel : i \in 1..Len(result)}
             = {n \in KernelNames : Qualifying(n) # {}}
        /\ \A i \in 1..Len(result) :
             LET row == result[i] IN
               /\ row.count = Cardinality(Qualifying(row.kernel))
               /\ row.total_duration_us = SumDur(Qualifying(row.kernel))
               /\ 2 * (row.avg_duration_us * row.count - row.total_duration_us)
                     \in (0 - row.count)..row.count

\* A record fails validation: it is not a map, has no string name, or has no
\* numeric duration.
FailsValidation(e) == ~e.map \/ e.name.t # "str" \/ e.dur.t # "num"
PassesValidation(e) == ~FailsValidation(e)

\* C14: a record that fails validation is skipped on its own: it contributes
\* to no statistic and does not change the rows reported for the other
\* records of the same input, so the result is the one the input gives with
\* the failing records taken out (and not an empty result).
C14_InvalidSkippedAlone ==
  (tpc = "returned" /\ trace_file = "ok")
     => result = AnalyzeEvents(SelectSeq(trace_events, PassesValidation))

C16_TreeStopped ==
  (m = "stop" /\ obs.svcUp)
     => /\ Root \in obs.signalled
             => enumerated \subseteq (obs.signalled \cup obs.gone)
        /\ (mpc = "done" /\ ret = "true") => alive = {}

\* C17: a descendant that exits on its own between the enumeration of the
\* tree and the moment stop_service signals it does not abort the teardown:
\* when stop_service returns, the remaining descendants and the root have been
\* terminated.
C17_VanishedChildDoesNotAbort ==
  (m = "stop" /\ mpc = "done" /\ obs.gone \cap Children # {})
     => /\ Root \notin alive
        /\ enumerated \cap alive = {}

\* C18: after stop_service() has returned, on any of its return paths (the
\* early return taken when the root has already exited included), the suite's
\* log thread is no longer running and appends nothing more to log_buffer.
C18_LogThreadStopped ==
  (variant = "multi" /\ m = "stop" /\ mpc = "done")
     => /\ log_thread # "running"
        /\ ~obs.lateLog

\* C19: the log buffer is bounded: after every processed output line it holds
\* at most 1000 entries, and past the cap it is the oldest entry that is
\* dropped, so the buffer always holds the most recent lines in arrival order.
C19_LogBufferBounded ==
  /\ Len(log_buffer) <= LogCap
  /\ Len(log_buffer) = (IF linesRead < LogCap THEN linesRead ELSE LogCap)
  /\ \A i \in 1..Len(log_buffer) :
       log_buffer[i] = linesRead - Len(log_buffer) + i

\* More lines than the cap have been read: the buffer is full and its oldest
\* entry is the line that arrived LogCap - 1 lines before the newest.
C19_Witness ==
  /\ linesRead > LogCap
  /\ Len(log_buffer) = LogCap
  /\ log_buffer[1] = linesRead - LogCap + 1
  /\ log_buffer[LogCap] = linesRead

\* What suite i's success flag is when the suite runs alone with the same
\* service and test outcomes.
AloneSuccess(i) ==
  /\ outcomes[i].started /\ outcomes[i].healthy
  /\ outcomes[i].up /\ outcomes[i].passed

\* Each suite's state is its own: its event is set only once its own service
\* has printed a ready line, its handle is that of its own process, its log
\* buffer holds lines of its own service only, and once its run() has
\* returned its success flag is the one it has when run alone.
C20_Own ==
  \A i \in DOMAIN suites :
    /\ suites[i].service_ready => outcomes[i].readyLine
    /\ suites[i].service_process \in {0, i}
    /\ \A k \in 1..Len(suites[i].log_buffer) :
         suites[i].log_buffer[k].service = i
    /\ suites[i].pc = "returned" => (suites[i].success <=> AloneSuccess(i))

\* A step that changes an attribute of suite i is a step of suite i's own
\* thread, or the start of that thread.
C20_Frame ==
  \A i \in DOMAIN suites :
    suites'[i] # suites[i] => (SuiteStep(i) \/ run_parallel_start)

\* C20: in parallel mode the suites are independent under every interleaving:
\* a suite's readiness event is set only by a line of its own service's
\* output, its process handle, log buffer and test results are written only by
\* its own lifecycle, and its success flag is the same as it would be if the
\* suite ran alone with the same service and test outcomes.
C20_SuitesIndependent == []C20_Own /\ [][C20_Frame]_vars

\* Both runs have returned; suite 1 went through on its own ready line and
\* succeeded, suite 2 waited for a ready line of its own that never came.
C20_Witness ==
  /\ par_ret = "false"
  /\ suites[1].service_ready /\ suites[1].success
  /\ suites[2].ready_pattern /\ suites[2].service_process = 2
  /\ ~suites[2].service_ready /\ ~suites[2].success

\* C21: in every report generated after all suites have finished, a suite
\* marked success has a recorded outcome for every one of its configured
\* tests, each with returncode 0 and success true; success_suites is the
\* number of suites marked success and is at most total_suites; and
\* run_serial / run_parallel returned True exactly when success_suites equals
\* total_suites.
C21_ReportConsistent ==
  \A r \in DOMAIN report :
    /\ \A i \in DOMAIN report[r].suites :
         report[r].suites[i].success =>
           /\ DOMAIN report[r].suites[i].test_results = Tests
           /\ \A t \in Tests :
                /\ report[r].suites[i].test_results[t].returncode = 0
                /\ report[r].suites[i].test_results[t].success
    /\ report[r].success_suites =
         Cardinality({i \in DOMAIN report[r].suites :
                        report[r].suites[i].success})
    /\ report[r].success_suites <= report[r].total_suites
    /\ (par_ret = "true") <=>
         (report[r].success_suites = report[r].total_suites)

\* A report of a serial run in which suite 1 passed every test and suite 2
\* ran its tests, one of which failed.
C21_Witness ==
  /\ report # <<>> /\ ~parallel
  /\ report[1].suites[1].success
  /\ ~report[1].suites[2].success
  /\ DOMAIN report[1].suites[2].test_results = Tests
  /\ report[1].success_suites = 1 /\ par_ret = "false"

====
